---------------------------- MODULE Spec2Model ----------------------------
(***************************************************************************)
(* Model of the Garmin RSD record scanner (rsd_parser_rust):               *)
(* GarminRsdParser::record_count, parse_all, parse_buffer,                 *)
(* parse_streaming and parse_record_at.                                    *)
(*                                                                         *)
(* Byte positions are 0-based as in the source; At(buf, i) reads byte i.   *)
(* A u32 is kept as the pair <<high 16 bits, low 16 bits>> because the     *)
(* marker 0xB7E9DA86 does not fit the model checker's integers.            *)
(* An Option<T> is a set with at most one element: {} is None, {v} is      *)
(* Some(v).                                                                *)
(*                                                                         *)
(* The three sizes of the source (1024-byte advance, 1 MiB read buffer,    *)
(* 500 MiB mode threshold) are scaled down to Step, BufLen and Threshold,  *)
(* keeping their order: the 12 bytes a record is decoded from fit in one   *)
(* advance, Step + 4 <= BufLen, and BufLen < Threshold.                    *)
(***************************************************************************)
EXTENDS Integers, Sequences, FiniteSets

VARIABLES
    file,           \* content of the file on disk
    pc,             \* position of the call in progress
    mode,           \* which entry point / branch of parse_all is running
    limit,          \* parse_all's limit: Option<u32>
    buffer,         \* the read buffer (whole content, or the fixed window)
    bytes_read,     \* streaming: length of the last read
    pos,            \* the File's read position
    file_offset,    \* streaming: parse_streaming's file_offset
    buffer_offset,  \* streaming: cursor in the window
    offset,         \* buffered: cursor in the buffer
    count,          \* records counted so far / markers counted so far
    records,        \* the records accumulated so far
    result,         \* what the call returned
    io_failed,      \* an open or a read returned an error
    shorts          \* reads that returned less than asked before end of file

vars == <<file, pc, mode, limit, buffer, bytes_read, pos, file_offset,
          buffer_offset, offset, count, records, result, io_failed, shorts>>

-----------------------------------------------------------------------------
(* Sizes *)

\* garmin_rsd.rs:108 and :159, "offset += 1024" (scaled)
Step == 12
\* garmin_rsd.rs:41, :64 and :124, "vec![0u8; 1024 * 1024]" (scaled)
BufLen == 16
\* garmin_rsd.rs:67, "self.file_size < 500 * 1024 * 1024" (scaled)
Threshold == 18

\* longest file content
MaxLen == 21
\* largest Some(n) passed as limit
MaxLimit == 1
\* reads of one call that may return fewer bytes than asked before end of file
MaxShortReads == 0

-----------------------------------------------------------------------------
(* Bytes and 32-bit values *)

At(buf, i) == buf[i + 1]

\* u32::from_le_bytes([b0, b1, b2, b3]) as <<high half, low half>>
from_le_bytes(b0, b1, b2, b3) == <<b3 * 256 + b2, b1 * 256 + b0>>

\* the marker constant with its high byte mistyped: 0x03E9DA86
MAGIC_REC_HDR_MISTYPED == <<1001, 55942>>

\* lib.rs:27, 0xB7E9DA86
MAGIC_REC_HDR == <<47081, 55942>>

\* the marker as it lies in the file: 86 DA E9 B7
MarkerBytes == <<134, 218, 233, 183>>

U32Zero == <<0, 0>>

\* "magic == MAGIC_REC_HDR"
IsMagic(magic) == magic = MAGIC_REC_HDR

\* the 4 bytes of buf at i, read as a little-endian u32
ReadU32(buf, i) ==
    from_le_bytes(At(buf, i), At(buf, i + 1), At(buf, i + 2), At(buf, i + 3))

-----------------------------------------------------------------------------
(* File contents *)

\* A byte that is not part of a marker.  Bytes look like the start of a
\* marker (86 DA E9) followed by a byte that depends on the position, so
\* every 4-byte value read outside a marker is nonzero and near the marker.
Filler(i) ==
    CASE i % 4 = 0 -> 134
      [] i % 4 = 1 -> 218
      [] i % 4 = 2 -> 233
      [] OTHER     -> i

\* marker positions that do not overlap
Separated(M) == \A p \in M : \A q \in M : p # q => (p - q >= 4 \/ q - p >= 4)

FileOf(len, M) ==
    [k \in 1..len |->
        LET i == k - 1
        IN  IF \E p \in M : p <= i /\ i < p + 4
            THEN At(MarkerBytes, i - (CHOOSE p \in M : p <= i /\ i < p + 4))
            ELSE Filler(i)]

Files ==
    { FileOf(len, M) : <<len, M>> \in
        { <<l, m>> \in (0..MaxLen) \X (SUBSET (0..(MaxLen - 4))) :
            /\ \A p \in m : p + 4 <= l
            /\ Separated(m) } }

\* the marker starts at byte p of content f
MarkerAt(f, p) == p + 4 <= Len(f) /\ SubSeq(f, p + 1, p + 4) = MarkerBytes

MarkerPositions(f) == { p \in 0..Len(f) : MarkerAt(f, p) }

-----------------------------------------------------------------------------
(* Records and results *)

None == {}

\* lib.rs SonarRecord
SonarRecord(off, seq, time) ==
    [ offset |-> off, sequence |-> seq, time_ms |-> time,
      channel_id |-> None, latitude |-> None, longitude |-> None,
      depth_m |-> None, water_temp_c |-> None, water_temp_f |-> None,
      pitch_deg |-> None, roll_deg |-> None, beam_angle_deg |-> None,
      gps_speed_knots |-> None, gps_heading_deg |-> None,
      sample_count |-> None, sonar_offset |-> None, sonar_size |-> None ]

OptionalsAbsent(r) ==
    /\ r.channel_id = None /\ r.latitude = None /\ r.longitude = None
    /\ r.depth_m = None /\ r.water_temp_c = None /\ r.water_temp_f = None
    /\ r.pitch_deg = None /\ r.roll_deg = None /\ r.beam_angle_deg = None
    /\ r.gps_speed_knots = None /\ r.gps_heading_deg = None
    /\ r.sample_count = None /\ r.sonar_offset = None /\ r.sonar_size = None

NoResult    == [kind |-> "none", records |-> <<>>, count |-> 0]
OkRecords(rs) == [kind |-> "Ok", records |-> rs, count |-> 0]
OkCount(n)  == [kind |-> "Ok", records |-> <<>>, count |-> n]
IoError     == [kind |-> "Io", records |-> <<>>, count |-> 0]

\* a failed read handled by leaving the loop with what was collected
ReadFailedKeep(rs) == OkRecords(rs)

\* "file.read(&mut buffer)?" with Err: the error is returned, the local
\* vector of records is dropped
ReadFailed(rs) == IoError

-----------------------------------------------------------------------------
(* parse_record_at *)

Failure(e) == [ok |-> FALSE, err |-> e, record |-> SonarRecord(0, U32Zero, U32Zero)]
Success(r) == [ok |-> TRUE, err |-> "", record |-> r]

\* a decoder that rejects a record whose two fields are not both present
parse_record_at_strict(buf, start) ==
    IF start + 4 > Len(buf) THEN Failure("CorruptedRecord")
    ELSE IF ReadU32(buf, start) # MAGIC_REC_HDR THEN Failure("InvalidFormat")
    ELSE IF start + 12 > Len(buf) THEN Failure("CorruptedRecord")
    ELSE Success(SonarRecord(start, ReadU32(buf, start + 4), ReadU32(buf, start + 8)))

parse_record_at(buf, start) ==
    IF start + 4 > Len(buf) THEN Failure("CorruptedRecord")
    ELSE IF ReadU32(buf, start) # MAGIC_REC_HDR THEN Failure("InvalidFormat")
    ELSE
        LET off1    == start + 4
            hasSeq  == off1 + 4 <= Len(buf)
            seq     == IF hasSeq THEN ReadU32(buf, off1) ELSE U32Zero
            off2    == IF hasSeq THEN off1 + 4 ELSE off1
            hasTime == off2 + 4 <= Len(buf)
            time    == IF hasTime THEN ReadU32(buf, off2) ELSE U32Zero
        IN  Success(SonarRecord(start, seq, time))

-----------------------------------------------------------------------------
(* The limit test of both scans *)

\* "count > limit_val"
LimitReachedLate(cnt, lim) == \E limit_val \in lim : cnt > limit_val

\* "if let Some(limit_val) = limit { if count >= limit_val {..} }"
LimitReached(cnt, lim) == \E limit_val \in lim : cnt >= limit_val

-----------------------------------------------------------------------------
(* parse_buffer: one iteration of "while offset < buffer.len()" *)

ScanStart == [offset |-> 0, count |-> 0, records |-> <<>>, done |-> FALSE]

Finished(s) == [s EXCEPT !.done = TRUE]

BufferIter(buf, lim, s) ==
    IF ~(s.offset < Len(buf)) THEN Finished(s)
    ELSE IF LimitReached(s.count, lim) THEN Finished(s)
    ELSE IF s.offset + 4 > Len(buf) THEN Finished(s)
    ELSE IF IsMagic(ReadU32(buf, s.offset))
    THEN LET r == parse_record_at(buf, s.offset)
         IN  IF r.ok
             THEN [s EXCEPT !.records = Append(s.records, r.record),
                            !.count   = s.count + 1,
                            !.offset  = s.offset + Step]
             ELSE [s EXCEPT !.offset = s.offset + 1]
    ELSE [s EXCEPT !.offset = s.offset + 1]

\* parse_buffer as a function: the loop run to its end
RECURSIVE parse_buffer_from(_, _, _)
parse_buffer_from(buf, lim, s) ==
    IF s.done THEN s.records ELSE parse_buffer_from(buf, lim, BufferIter(buf, lim, s))

parse_buffer(buf, lim) == parse_buffer_from(buf, lim, ScanStart)

-----------------------------------------------------------------------------
(* parse_streaming: one iteration of "while buffer_offset < bytes_read" *)

\* the record's offset taken from the window-relative index alone
WindowOffset(foff, bo) == bo

\* "record.offset = file_offset + buffer_offset as u64"
AbsoluteOffset(foff, bo) == foff + bo

\* the slice &buffer[buffer_offset..]: it runs to the end of the buffer, not
\* to bytes_read
SliceFrom(buf, bo) == SubSeq(buf, bo + 1, Len(buf))

\* the loop body with the non-matching arm leaving the cursor where it is
StreamIterNoAdvance(buf, n, foff, lim, s) ==
    IF ~(s.buffer_offset < n) THEN [s EXCEPT !.exit = "refill"]
    ELSE IF LimitReached(s.count, lim) THEN [s EXCEPT !.exit = "return"]
    ELSE IF s.buffer_offset + 4 > n THEN [s EXCEPT !.exit = "refill"]
    ELSE IF IsMagic(ReadU32(buf, s.buffer_offset))
    THEN LET r == parse_record_at(SliceFrom(buf, s.buffer_offset), 0)
         IN  IF r.ok
             THEN [s EXCEPT
                     !.records = Append(s.records,
                         [r.record EXCEPT
                             !.offset = AbsoluteOffset(foff, s.buffer_offset)]),
                     !.count = s.count + 1,
                     !.buffer_offset = s.buffer_offset + Step]
             ELSE [s EXCEPT !.buffer_offset = s.buffer_offset + 1]
    ELSE s

\* exit is "continue" (next iteration), "refill" (the while loop ended or
\* broke: back to the read) or "return" (return Ok(records))
StreamIter(buf, n, foff, lim, s) ==
    IF ~(s.buffer_offset < n) THEN [s EXCEPT !.exit = "refill"]
    ELSE IF LimitReached(s.count, lim) THEN [s EXCEPT !.exit = "return"]
    ELSE IF s.buffer_offset + 4 > n THEN [s EXCEPT !.exit = "refill"]
    ELSE IF IsMagic(ReadU32(buf, s.buffer_offset))
    THEN LET r == parse_record_at(SliceFrom(buf, s.buffer_offset), 0)
         IN  IF r.ok
             THEN [s EXCEPT
                     !.records = Append(s.records,
                         [r.record EXCEPT
                             !.offset = AbsoluteOffset(foff, s.buffer_offset)]),
                     !.count = s.count + 1,
                     !.buffer_offset = s.buffer_offset + Step]
             ELSE [s EXCEPT !.buffer_offset = s.buffer_offset + 1]
    ELSE [s EXCEPT !.buffer_offset = s.buffer_offset + 1]

-----------------------------------------------------------------------------
(* Reads *)

file_size == Len(file)

Min(a, b) == IF a < b THEN a ELSE b

Zeros == [k \in 1..BufLen |-> 0]

\* what file.read(&mut buffer) may return before end of file: the whole
\* buffer or what is left of the file, or, a bounded number of times, less
ReadSizes ==
    { n \in 1..Min(BufLen, Len(file) - pos) :
        n = Min(BufLen, Len(file) - pos) \/ shorts < MaxShortReads }

\* the buffer after a read of n bytes at pos: the rest keeps its old bytes
Filled(buf, n) ==
    [k \in 1..BufLen |-> IF k <= n THEN file[pos + k] ELSE buf[k]]

IsShort(n) == n < Min(BufLen, Len(file) - pos)

\* buffer[..bytes_read].windows(4) that hold the marker
WindowMatches(buf, n) ==
    Cardinality({ i \in 0..(n - 4) : IsMagic(ReadU32(buf, i)) })

-----------------------------------------------------------------------------
(* State machine *)

Init ==
    /\ file \in Files
    /\ pc = "idle"
    /\ mode = "none"
    /\ limit = None
    /\ buffer = <<>>
    /\ bytes_read = 0
    /\ pos = 0
    /\ file_offset = 0
    /\ buffer_offset = 0
    /\ offset = 0
    /\ count = 0
    /\ records = <<>>
    /\ result = NoResult
    /\ io_failed = FALSE
    /\ shorts = 0

Limits == {None} \cup { {n} : n \in 0..MaxLimit }

\* parse_all or record_count: File::open fails
OpenFails ==
    /\ pc = "idle"
    /\ \E m \in {"buffered", "streaming", "count"} :
         /\ (m = "buffered") => file_size < Threshold
         /\ (m = "streaming") => ~(file_size < Threshold)
         /\ mode' = m
    /\ pc' = "done"
    /\ result' = IoError
    /\ io_failed' = TRUE
    /\ UNCHANGED <<file, limit, buffer, bytes_read, pos, file_offset,
                   buffer_offset, offset, count, records, shorts>>

\* parse_all, small file: read_to_end into the buffer, then parse_buffer
ParseAllBuffered ==
    /\ pc = "idle"
    /\ file_size < Threshold
    /\ \E lim \in Limits : limit' = lim
    /\ mode' = "buffered"
    /\ buffer' = file
    /\ pos' = Len(file)
    /\ offset' = 0
    /\ count' = 0
    /\ records' = <<>>
    /\ pc' = "parse_buffer"
    /\ UNCHANGED <<file, bytes_read, file_offset, buffer_offset, result,
                   io_failed, shorts>>

\* parse_all, small file: read_to_end fails
ParseAllReadToEndFails ==
    /\ pc = "idle"
    /\ file_size < Threshold
    /\ \E lim \in Limits : limit' = lim
    /\ mode' = "buffered"
    /\ pc' = "done"
    /\ result' = IoError
    /\ io_failed' = TRUE
    /\ UNCHANGED <<file, buffer, bytes_read, pos, file_offset, buffer_offset,
                   offset, count, records, shorts>>

ParseBufferStep ==
    /\ pc = "parse_buffer"
    /\ LET s == BufferIter(buffer, limit,
                    [offset |-> offset, count |-> count,
                     records |-> records, done |-> FALSE])
       IN  /\ offset' = s.offset
           /\ count' = s.count
           /\ records' = s.records
           /\ IF s.done
              THEN pc' = "done" /\ result' = OkRecords(s.records)
              ELSE pc' = pc /\ result' = result
    /\ UNCHANGED <<file, mode, limit, buffer, bytes_read, pos, file_offset,
                   buffer_offset, io_failed, shorts>>

\* parse_all, large file: parse_streaming starts
ParseAllStreaming ==
    /\ pc = "idle"
    /\ ~(file_size < Threshold)
    /\ \E lim \in Limits : limit' = lim
    /\ mode' = "streaming"
    /\ buffer' = Zeros
    /\ count' = 0
    /\ file_offset' = 0
    /\ records' = <<>>
    /\ pc' = "stream_read"
    /\ UNCHANGED <<file, bytes_read, pos, buffer_offset, offset, result,
                   io_failed, shorts>>

\* file.read(&mut buffer) returns n > 0
StreamRead ==
    /\ pc = "stream_read"
    /\ \E n \in ReadSizes :
         /\ buffer' = Filled(buffer, n)
         /\ bytes_read' = n
         /\ pos' = pos + n
         /\ shorts' = IF IsShort(n) THEN shorts + 1 ELSE shorts
    /\ buffer_offset' = 0
    /\ pc' = "stream_scan"
    /\ UNCHANGED <<file, mode, limit, file_offset, offset, count, records,
                   result, io_failed>>

\* file.read(&mut buffer) returns 0: end of file
StreamReadEof ==
    /\ pc = "stream_read"
    /\ pos = Len(file)
    /\ bytes_read' = 0
    /\ pc' = "done"
    /\ result' = OkRecords(records)
    /\ UNCHANGED <<file, mode, limit, buffer, pos, file_offset, buffer_offset,
                   offset, count, records, io_failed, shorts>>

\* file.read(&mut buffer) returns an error
StreamReadFails ==
    /\ pc = "stream_read"
    /\ pc' = "done"
    /\ result' = ReadFailed(records)
    /\ io_failed' = TRUE
    /\ UNCHANGED <<file, mode, limit, buffer, bytes_read, pos, file_offset,
                   buffer_offset, offset, count, records, shorts>>

StreamScanStep ==
    /\ pc = "stream_scan"
    /\ LET s == StreamIter(buffer, bytes_read, file_offset, limit,
                    [buffer_offset |-> buffer_offset, count |-> count,
                     records |-> records, exit |-> "continue"])
       IN  /\ buffer_offset' = s.buffer_offset
           /\ count' = s.count
           /\ records' = s.records
           /\ CASE s.exit = "continue" ->
                     pc' = pc /\ file_offset' = file_offset /\ result' = result
                [] s.exit = "refill" ->
                     /\ pc' = "stream_read"
                     /\ file_offset' = file_offset + bytes_read
                     /\ result' = result
                [] s.exit = "return" ->
                     /\ pc' = "done"
                     /\ file_offset' = file_offset
                     /\ result' = OkRecords(s.records)
    /\ UNCHANGED <<file, mode, limit, buffer, bytes_read, pos, offset,
                   io_failed, shorts>>

\* record_count starts
RecordCount ==
    /\ pc = "idle"
    /\ mode' = "count"
    /\ buffer' = Zeros
    /\ count' = 0
    /\ pc' = "count_read"
    /\ UNCHANGED <<file, limit, bytes_read, pos, file_offset, buffer_offset,
                   offset, records, result, io_failed, shorts>>

\* record_count: a read of n > 0 bytes and the pass over its windows
CountRead ==
    /\ pc = "count_read"
    /\ \E n \in ReadSizes :
         /\ buffer' = Filled(buffer, n)
         /\ bytes_read' = n
         /\ pos' = pos + n
         /\ shorts' = IF IsShort(n) THEN shorts + 1 ELSE shorts
         /\ count' = count + WindowMatches(Filled(buffer, n), n)
    /\ UNCHANGED <<file, pc, mode, limit, file_offset, buffer_offset, offset,
                   records, result, io_failed>>

\* record_count: the read returns 0
CountReadEof ==
    /\ pc = "count_read"
    /\ pos = Len(file)
    /\ bytes_read' = 0
    /\ pc' = "done"
    /\ result' = OkCount(count)
    /\ UNCHANGED <<file, mode, limit, buffer, pos, file_offset, buffer_offset,
                   offset, count, records, io_failed, shorts>>

\* record_count: the read returns an error
CountReadFails ==
    /\ pc = "count_read"
    /\ pc' = "done"
    /\ result' = IoError
    /\ io_failed' = TRUE
    /\ UNCHANGED <<file, mode, limit, buffer, bytes_read, pos, file_offset,
                   buffer_offset, offset, count, records, shorts>>

Next ==
    \/ OpenFails
    \/ ParseAllBuffered
    \/ ParseAllReadToEndFails
    \/ ParseBufferStep
    \/ ParseAllStreaming
    \/ StreamRead
    \/ StreamReadEof
    \/ StreamReadFails
    \/ StreamScanStep
    \/ RecordCount
    \/ CountRead
    \/ CountReadEof
    \/ CountReadFails

Spec == Init /\ [][Next]_vars

\* every call runs on: no step is postponed for ever
FairSpec == Spec /\ WF_vars(Next)

-----------------------------------------------------------------------------
(* Properties *)

Returned == pc = "done" /\ result.kind = "Ok"

Parsing == mode \in {"buffered", "streaming"}

\* C1: for the same content and limit the streaming scan returns the same
\* sequence of records (offset, sequence, time_ms) as the buffered scan of
\* the whole content.
C1_StreamingEqualsBuffered ==
    (Returned /\ mode = "streaming") => result.records = parse_buffer(file, limit)

\* C2: record_count returns at least the number of (non-overlapping) markers
\* in the file, however the reads split the file, when no read fails.
C2_CountIsUpperBound ==
    (Returned /\ mode = "count") =>
        result.count >= Cardinality(MarkerPositions(file))

\* C3: with limit Some(n), at every step of the scan at most n records are
\* accumulated, and parse_all returns at most n records (none when n = 0).
C3_LimitBoundsRecords ==
    \A n \in limit :
        /\ Len(records) <= n
        /\ count <= n
        /\ Len(result.records) <= n
        /\ (n = 0 => result.records = <<>>)

C3_Witness ==
    /\ Returned /\ mode = "buffered"
    /\ limit = {1}
    /\ Len(result.records) = 1
    /\ Len(parse_buffer(file, None)) > 1

\* the u32 at file bytes p..p+4 when the file has them, else 0
FieldAt(p) == IF p + 4 <= Len(file) THEN ReadU32(file, p) ELSE U32Zero

\* C4: every record returned by parse_all has sequence = the u32 at file
\* bytes offset+4..offset+8 (0 when the file ends before), time_ms = the u32
\* at offset+8..offset+12 (0 when the file ends before), and no optional
\* field, in both modes.
C4_FieldsFromFile ==
    (Returned /\ Parsing) =>
        \A k \in 1..Len(result.records) :
            LET r == result.records[k]
            IN  /\ r.sequence = FieldAt(r.offset + 4)
                /\ r.time_ms = FieldAt(r.offset + 8)
                /\ OptionalsAbsent(r)

\* C5 as stated: when a read fails after records were produced, parse_all
\* still returns the records produced so far.
C5_RecordsSurviveReadFailure ==
    (pc = "done" /\ Parsing /\ io_failed /\ records # <<>>) =>
        result.records = records

\* C5 amended: when a read fails after records were produced, parse_all
\* returns the I/O error and none of the records produced so far.
C5_ReadFailureReturnsErrorOnly ==
    (pc = "done" /\ Parsing /\ io_failed /\ records # <<>>) =>
        (result.kind = "Io" /\ result.records = <<>>)

C5_Witness ==
    /\ pc = "done" /\ mode = "streaming" /\ io_failed
    /\ Len(records) >= 1
    /\ pos > 0

\* C6: any two consecutive records of the output have offsets at least one
\* advance (Step) apart, in both modes: a marker less than Step after a
\* decoded one yields no record.
C6_RecordsStepApart ==
    Parsing =>
        \A k \in 1..(Len(records) - 1) :
            records[k + 1].offset - records[k].offset >= Step

\* C7: each iteration of a scan that goes on moves the cursor forward by 1 or
\* by Step, and every call eventually returns.
C7_ScanAdvancesAndTerminates ==
    /\ [][ /\ (pc = "parse_buffer" /\ pc' = "parse_buffer")
                => offset' \in {offset + 1, offset + Step}
           /\ (pc = "stream_scan" /\ pc' = "stream_scan")
                => buffer_offset' \in {buffer_offset + 1, buffer_offset + Step}
         ]_vars
    /\ <>(pc = "done")

C7_Witness ==
    /\ Returned /\ mode = "streaming"
    /\ limit = None
    /\ Len(result.records) >= 2
    /\ pos = Len(file)

\* the buffered scanner is about to examine a marker followed by fewer than 8
\* bytes
TruncatedAtOffset ==
    /\ pc = "parse_buffer"
    /\ offset < Len(buffer)
    /\ ~LimitReached(count, limit)
    /\ MarkerAt(buffer, offset)
    /\ Len(buffer) - (offset + 4) < 8

\* the same for the streaming scanner: the marker is in the window and fewer
\* than 8 bytes of the file follow it
TruncatedAtBufferOffset ==
    /\ pc = "stream_scan"
    /\ buffer_offset + 4 <= bytes_read
    /\ ~LimitReached(count, limit)
    /\ MarkerAt(SubSeq(buffer, 1, bytes_read), buffer_offset)
    /\ Len(file) - (file_offset + buffer_offset + 4) < 8

C9_NoIoFailureNoError ==
    (pc = "done" /\ Parsing /\ ~io_failed) =>
        /\ result.kind = "Ok"
        /\ MarkerPositions(file) = {} => result.records = <<>>

C9_Witness ==
    /\ Returned /\ mode = "buffered" /\ ~io_failed
    /\ MarkerPositions(file) = {}
    /\ Len(file) >= 8
    /\ offset > 0

\* C10: every record accumulated has as offset a file position where the
\* marker lies; in streaming mode file_offset is the number of file bytes
\* read before the current window, and it never decreases.
C10_OffsetsAreMarkerPositions ==
    /\ [](/\ Parsing => \A k \in 1..Len(records) : MarkerAt(file, records[k].offset)
          /\ pc = "stream_scan" => file_offset + bytes_read = pos
          /\ pc = "stream_read" => file_offset = pos)
    /\ [][file_offset' >= file_offset]_vars

C10_Witness ==
    /\ mode = "streaming"
    /\ pc = "stream_scan"
    /\ file_offset > 0
    /\ Len(records) >= 1
    /\ records[Len(records)].offset >= file_offset

=============================================================================
